---- MODULE Spec2Model ----
(***************************************************************************)
(* DraggableLetters (apps/docs/constants/TextComponent/                    *)
(* draggableLettersRaw.ts): a React component that measures the glyphs of  *)
(* `text` in a hidden layer, lays them out centred in its container        *)
(* (useLayoutEffect, lines 49-77) and makes every visible glyph draggable  *)
(* through Draggable.create (useEffect, lines 79-99).                      *)
(*                                                                         *)
(* One action of the model is one whole event of the single-threaded UI:   *)
(* the mount, one update of the props (render, commit, layout effect,      *)
(* passive effect, and the synchronous second render that setLetters       *)
(* causes, with its own commit and passive effect), the unmount, a resize  *)
(* of the container, and a pointer press or release on a glyph.            *)
(*                                                                         *)
(* Positions are kept in half pixels (top and left hold twice the pixel    *)
(* value), so that (containerWidth - totalWidth) / 2 is an integer here;   *)
(* all offsetWidth/offsetHeight values are integers in the DOM.            *)
(***************************************************************************)
EXTENDS Integers, Sequences, FiniteSets

VARIABLES
    phase,          \* "init" (constructed), "mounted", "unmounted"
    props,          \* the props of the last render
    container,      \* [w, h]: offsetWidth / offsetHeight of the container
    fontWidth,      \* offsetWidth of the hidden measuring element of a char
    replaceOnCreate,\* drag collaborator: does create() on an element that
                    \* already has a binding dispose that binding?
    letterRefs,     \* letterRefs.current: char measured at idx, or NoEl
    letters,        \* the `letters` state: the layout run
    layoutInputs,   \* what the last layout pass read: [w, h, widths]
    visEls,         \* the ".draggable-letter" elements in the DOM, in order
    nextEl,         \* next fresh DOM element id
    bindings,       \* live Draggable instances held by the collaborator
    passNo,         \* executions of the binding pass so far
    created,        \* Draggable.create calls of the last mount/update's effects
    drag,           \* the pointer gesture in progress, or NoDrag
    calls,          \* callback invocations made by the last event
    lastOp,         \* name of the last event
    effectPending,  \* the useEffect of the last commit is scheduled, not yet run
    updates         \* prop updates so far

vars == <<phase, props, container, fontWidth, replaceOnCreate, letterRefs,
          letters, layoutInputs, visEls, nextEl, bindings, passNo, created,
          drag, calls, lastOp, effectPending, updates>>

----------------------------------------------------------------------------
(* Bounds and input sets *)

MaxUpdates == 2

CharSet == {"A", "B"}
SpacingSet == {5, 12}
\* "y" is handled exactly like "x" (line 87 singles out only "both")
Directions == {"x", "both"}
None == "undefined"
StartCallbacks == {None, "f1"}
EndCallbacks == {None, "g1"}
ClassNames == {"", "c1"}
Sizes == {[w |-> 100, h |-> 200], [w |-> 20, h |-> 100]}

\* the texts the parent may pass: empty, one glyph, two glyphs in either
\* order (so a change can grow, shrink or replace the run)
Texts == {<<>>, <<"A">>, <<"A", "B">>, <<"B", "A">>}

NoEl == "null"
NoDrag == [el |-> -1, idx |-> -1, char |-> NoEl]

(* Program constants *)
DefaultSpacing == 12
FixedTop == 100
GlyphHalfHeight == 32

Max(a, b) == IF a >= b THEN a ELSE b
Range(s) == {s[i] : i \in 1..Len(s)}

----------------------------------------------------------------------------
(* The layout pass: useLayoutEffect, lines 49-77 *)

\* line 55: letterRefs.current[i]?.offsetWidth ?? 0, for every char of text
MeasuredWidths(text, refs, fw) ==
    [i \in 1..Len(text) |->
        IF i <= Len(refs) /\ refs[i] # NoEl THEN fw[refs[i]] ELSE 0]

\* line 58: widths.reduce((sum, w) => sum + w, 0)
RECURSIVE SumWidths(_)
SumWidths(widths) ==
    IF widths = <<>> THEN 0 ELSE widths[1] + SumWidths(Tail(widths))

\* lines 57-58
TotalWidth(widths, spacing, n) == SumWidths(widths) + spacing * (n - 1)

\* a start offset clamped at the container's left edge
StartXClamped(containerWidth, totalWidth) == Max(0, containerWidth - totalWidth)

\* line 59, in half pixels: 2 * ((containerWidth - totalWidth) / 2)
StartX(containerWidth, totalWidth) == containerWidth - totalWidth

\* lines 60-62, in half pixels
TopOf(verticalCenter, containerHeight) ==
    IF verticalCenter THEN containerHeight - 2 * GlyphHalfHeight
    ELSE 2 * FixedTop

\* an advance that treats a zero width as "no glyph" and adds no gap for it
AdvanceSkippingEmpty(currentLeft, width, spacing) ==
    IF width = 0 THEN currentLeft ELSE currentLeft + 2 * (width + spacing)

\* line 73: currentLeft += (widths[i] ?? 0) + spacing, in half pixels
Advance(currentLeft, width, spacing) == currentLeft + 2 * (width + spacing)

\* lines 64-74: the forEach over text.split("")
RECURSIVE Positions(_, _, _, _, _, _)
Positions(text, widths, spacing, top, currentLeft, i) ==
    IF i > Len(text) THEN <<>>
    ELSE <<[char |-> text[i], top |-> top, left |-> currentLeft]>>
         \o Positions(text, widths, spacing, top,
                      Advance(currentLeft, widths[i], spacing), i + 1)

\* a layout pass that walks letterRefs.current instead of text.split("")
LayoutPassOverRefs(p, refs, box, fw) ==
    LET widths == MeasuredWidths(refs, refs, fw)
        totalWidth == TotalWidth(widths, p.spacing, Len(refs))
    IN Positions(refs, widths, p.spacing,
                 TopOf(p.verticalCenter, box.h),
                 StartX(box.w, totalWidth), 1)

\* lines 52-76: the value handed to setLetters
LayoutPass(p, refs, box, fw) ==
    LET widths == MeasuredWidths(p.text, refs, fw)
        totalWidth == TotalWidth(widths, p.spacing, Len(p.text))
    IN Positions(p.text, widths, p.spacing,
                 TopOf(p.verticalCenter, box.h),
                 StartX(box.w, totalWidth), 1)

\* a dependency list that forgets spacing: [text, verticalCenter]
LayoutDepsWithoutSpacing(old, new) ==
    \/ new.text # old.text
    \/ new.verticalCenter # old.verticalCenter

\* a dependency list that also holds direction
LayoutDepsWithDirection(old, new) ==
    \/ new.text # old.text
    \/ new.spacing # old.spacing
    \/ new.verticalCenter # old.verticalCenter
    \/ new.direction # old.direction

\* line 77: the dependency list [text, spacing, verticalCenter]
LayoutDepsChanged(old, new) ==
    \/ new.text # old.text
    \/ new.spacing # old.spacing
    \/ new.verticalCenter # old.verticalCenter

\* line 50: the early return (containerRef.current is set once mounted)
LayoutSkipped(refs) == Len(refs) = 0

\* lines 109-119: commit of the hidden measuring layer; the ref callback of
\* a rendered element stores it at its index, the ref callback of a removed
\* element stores null there (the array never shrinks)
CommitMeasureRefs(refs, text) ==
    [i \in 1..Max(Len(refs), Len(text)) |->
        IF i <= Len(text) THEN text[i] ELSE NoEl]

\* lines 123-134: commit of the visible layer, keyed `letter-${idx}`: the
\* element of a surviving index is kept, a new index gets a new element
CommitVisible(els, n, next) ==
    [i \in 1..n |-> IF i <= Len(els) THEN els[i] ELSE next + (i - Len(els)) - 1]

----------------------------------------------------------------------------
(* The binding pass: useEffect, lines 79-99 *)

\* line 87
DragType(direction) == IF direction = "both" THEN "x,y" ELSE direction

RunChars(run) == [i \in 1..Len(run) |-> run[i].char]

\* lines 84-97: Draggable.create(el, {...}) for the element at index i of
\* els (1-based here). The handlers close over the letters, onDragStart and
\* onDragEnd of the render whose effect this is. forText records the text
\* prop of that same render.
NewBinding(els, i, run, p, passId) ==
    [el |-> els[i], idx |-> i - 1, run |-> RunChars(run),
     start |-> p.onDragStart, end |-> p.onDragEnd,
     type |-> DragType(p.direction), pass |-> passId,
     forText |-> p.text, pressed |-> FALSE]

\* lines 81-98: els.forEach(...). The effect returns no cleanup and keeps
\* no handle, so nothing created by an earlier run is killed by the
\* component; the collaborator itself either leaves an earlier binding of
\* the same element alive or disposes it (replace).
BindingPass(bs, els, run, p, passId, replace) ==
    LET kept == IF replace THEN {b \in bs : b.el \notin Range(els)} ELSE bs
    IN kept \cup {NewBinding(els, i, run, p, passId) : i \in 1..Len(els)}

\* line 99: the dependency list [letters, direction, onDragStart, onDragEnd];
\* `letters` is compared by identity and is handled by the caller
BindingDepsChanged(old, new) ==
    \/ new.direction # old.direction
    \/ new.onDragStart # old.onDragStart
    \/ new.onDragEnd # old.onDragEnd

\* lines 89-92: onPress of one binding; the set of calls it makes
OnPress(b) ==
    IF b.idx + 1 <= Len(b.run) /\ b.start # None
    THEN {[fn |-> b.start, char |-> b.run[b.idx + 1], idx |-> b.idx, pass |-> b.pass]}
    ELSE {}

\* lines 93-96: onRelease of one binding
OnRelease(b) ==
    IF b.idx + 1 <= Len(b.run) /\ b.end # None
    THEN {[fn |-> b.end, char |-> b.run[b.idx + 1], idx |-> b.idx, pass |-> b.pass]}
    ELSE {}

----------------------------------------------------------------------------
(* One render of the component with props np, through to the end of the     *)
(* synchronous work it causes (lines 34-137).                               *)
(*   before the render: React runs a passive effect that is still           *)
(*             scheduled from the previous commit (with the letters, props  *)
(*             and DOM of that commit);                                     *)
(*   commit 1: measuring refs (109-119); layout effect if its deps changed  *)
(*             (49-77), which calls setLetters unless it returns early;     *)
(*             the passive effect (79-99) is scheduled if its deps changed; *)
(*   without setLetters the work ends here and the scheduled effect runs    *)
(*             in a later task (FlushPassive);                              *)
(*   with setLetters React renders again synchronously: it first runs the   *)
(*             scheduled effect, which still sees the letters of render 1,  *)
(*             then commit 2 re-renders the visible layer from the new      *)
(*             letters (123-134) and, the render being synchronous, runs    *)
(*             the passive effect again (`letters` changed identity).       *)

\* the bindings once a scheduled passive effect, if any, has run
AfterPending(pending, bs, els, run, p, passId, replace) ==
    IF pending THEN BindingPass(bs, els, run, p, passId, replace) ELSE bs

Render(np, isMount) ==
    LET n0 == IF effectPending THEN 1 ELSE 0
        bs0 == AfterPending(effectPending, bindings, visEls, letters, props,
                            passNo + 1, replaceOnCreate)
        refs1 == CommitMeasureRefs(letterRefs, np.text)
        layoutRuns == /\ isMount \/ LayoutDepsChanged(props, np)
                      /\ ~LayoutSkipped(refs1)
        pass1Runs == isMount \/ BindingDepsChanged(props, np)
        n1 == IF pass1Runs THEN 1 ELSE 0
        bs1 == AfterPending(pass1Runs, bs0, visEls, letters, np,
                            passNo + n0 + 1, replaceOnCreate)
        run2 == LayoutPass(np, refs1, container, fontWidth)
        els2 == CommitVisible(visEls, Len(run2), nextEl)
        pass2Id == passNo + n0 + n1 + 1
    IN /\ props' = np
       /\ letterRefs' = refs1
       /\ IF layoutRuns
          THEN /\ letters' = run2
               /\ layoutInputs' = [w |-> container.w, h |-> container.h,
                                   widths |-> MeasuredWidths(np.text, refs1, fontWidth)]
               /\ visEls' = els2
               /\ nextEl' = nextEl + Max(0, Len(run2) - Len(visEls))
               /\ bindings' = BindingPass(bs1, els2, run2, np, pass2Id, replaceOnCreate)
               /\ passNo' = pass2Id
               /\ created' = (IF pass1Runs THEN Len(visEls) ELSE 0) + Len(els2)
               /\ effectPending' = FALSE
          ELSE /\ UNCHANGED <<letters, layoutInputs, visEls, nextEl>>
               /\ bindings' = bs0
               /\ passNo' = passNo + n0
               /\ created' = 0
               /\ effectPending' = pass1Runs

----------------------------------------------------------------------------
(* Events *)

DefaultProps(t) ==
    [text |-> t, direction |-> "both", spacing |-> DefaultSpacing,
     verticalCenter |-> TRUE, onDragStart |-> None, onDragEnd |-> None,
     letterClassName |-> ""]

\* the offsetWidth the browser reports for the measuring element of a
\* char: two fonts, one of them with a zero-width "A"
Fonts == {[c \in CharSet |-> IF c = "A" THEN 10 ELSE 20],
          [c \in CharSet |-> IF c = "A" THEN 0 ELSE 20]}

Init ==
    /\ phase = "init"
    /\ props \in {DefaultProps(t) : t \in Texts}
    /\ container = [w |-> 100, h |-> 200]
    /\ fontWidth \in Fonts
    /\ replaceOnCreate \in BOOLEAN
    /\ letterRefs = <<>>
    /\ letters = <<>>
    /\ layoutInputs = [w |-> 0, h |-> 0, widths |-> <<>>]
    /\ visEls = <<>>
    /\ nextEl = 0
    /\ bindings = {}
    /\ passNo = 0
    /\ created = 0
    /\ drag = NoDrag
    /\ calls = {}
    /\ lastOp = "new"
    /\ effectPending = FALSE
    /\ updates = 0

\* first render and commit
Mount ==
    /\ phase = "init"
    /\ phase' = "mounted"
    /\ Render(props, TRUE)
    /\ lastOp' = "Mount"
    /\ calls' = {}
    /\ UNCHANGED <<container, fontWidth, replaceOnCreate, drag, updates>>

\* the parent renders the component again with props np
Update(np, op) ==
    /\ phase = "mounted"
    /\ updates < MaxUpdates
    /\ np # props
    /\ updates' = updates + 1
    /\ Render(np, FALSE)
    /\ lastOp' = op
    /\ calls' = {}
    /\ UNCHANGED <<phase, container, fontWidth, replaceOnCreate, drag>>

SetText == \E t \in Texts : Update([props EXCEPT !.text = t], "SetText")
SetDirection == \E d \in Directions : Update([props EXCEPT !.direction = d], "SetDirection")
SetSpacing == \E s \in SpacingSet : Update([props EXCEPT !.spacing = s], "SetSpacing")
SetVerticalCenter ==
    Update([props EXCEPT !.verticalCenter = ~props.verticalCenter], "SetVerticalCenter")
SetOnDragStart ==
    \E f \in StartCallbacks : Update([props EXCEPT !.onDragStart = f], "SetOnDragStart")
SetOnDragEnd ==
    \E g \in EndCallbacks : Update([props EXCEPT !.onDragEnd = g], "SetOnDragEnd")
SetLetterClassName ==
    \E c \in ClassNames : Update([props EXCEPT !.letterClassName = c], "SetLetterClassName")
\* text and direction replaced by the same parent render
SetTextAndDirection ==
    \E t \in Texts \ {props.text}, d \in Directions \ {props.direction} :
        Update([props EXCEPT !.text = t, !.direction = d], "SetTextAndDirection")

\* a later task: React runs the passive effect it scheduled at the last
\* commit (lines 79-99), on the letters, props and DOM of that commit
FlushPassive ==
    /\ phase = "mounted"
    /\ effectPending
    /\ effectPending' = FALSE
    /\ bindings' = BindingPass(bindings, visEls, letters, props, passNo + 1,
                               replaceOnCreate)
    /\ passNo' = passNo + 1
    /\ created' = created + Len(visEls)
    /\ lastOp' = "FlushPassive"
    /\ calls' = {}
    /\ UNCHANGED <<phase, props, container, fontWidth, replaceOnCreate, letterRefs,
                   letters, layoutInputs, visEls, nextEl, drag, updates>>

\* the container changes size; the component observes nothing
Resize ==
    /\ phase = "mounted"
    /\ \E b \in Sizes \ {container} : container' = b
    /\ lastOp' = "Resize"
    /\ calls' = {}
    /\ UNCHANGED <<phase, props, fontWidth, replaceOnCreate, letterRefs, letters,
                   layoutInputs, visEls, nextEl, bindings, passNo, created,
                   drag, effectPending, updates>>

\* React unmounts the component: a passive effect still scheduled runs
\* first (React flushes passive effects before it renders), then the DOM
\* is removed and every ref callback is called with null; neither effect
\* has a cleanup to run
Unmount ==
    /\ phase = "mounted"
    /\ phase' = "unmounted"
    /\ bindings' = AfterPending(effectPending, bindings, visEls, letters, props,
                                passNo + 1, replaceOnCreate)
    /\ passNo' = IF effectPending THEN passNo + 1 ELSE passNo
    /\ created' = IF effectPending THEN created + Len(visEls) ELSE created
    /\ effectPending' = FALSE
    /\ letterRefs' = [i \in 1..Len(letterRefs) |-> NoEl]
    /\ letters' = <<>>
    /\ visEls' = <<>>
    /\ lastOp' = "Unmount"
    /\ calls' = {}
    /\ UNCHANGED <<props, container, fontWidth, replaceOnCreate, layoutInputs,
                   nextEl, drag, updates>>

\* pointer press on the visible glyph element at index i - 1: every live
\* binding of that element runs its onPress
Press(i) ==
    /\ phase = "mounted"
    /\ drag = NoDrag
    /\ i \in 1..Len(visEls)
    /\ LET hit == {b \in bindings : b.el = visEls[i]}
       IN /\ calls' = UNION {OnPress(b) : b \in hit}
          /\ bindings' = (bindings \ hit) \cup {[b EXCEPT !.pressed = TRUE] : b \in hit}
    /\ drag' = [el |-> visEls[i], idx |-> i - 1, char |-> letters[i].char]
    /\ lastOp' = "Press"
    /\ UNCHANGED <<phase, props, container, fontWidth, replaceOnCreate, letterRefs,
                   letters, layoutInputs, visEls, nextEl, passNo, created,
                   effectPending, updates>>

\* pointer release: every live binding that took the press runs its onRelease
Release ==
    /\ drag # NoDrag
    /\ LET hit == {b \in bindings : b.pressed}
       IN /\ calls' = UNION {OnRelease(b) : b \in hit}
          /\ bindings' = (bindings \ hit) \cup {[b EXCEPT !.pressed = FALSE] : b \in hit}
    /\ drag' = NoDrag
    /\ lastOp' = "Release"
    /\ UNCHANGED <<phase, props, container, fontWidth, replaceOnCreate, letterRefs,
                   letters, layoutInputs, visEls, nextEl, passNo, created,
                   effectPending, updates>>

Next ==
    \/ Mount
    \/ SetText
    \/ SetDirection
    \/ SetSpacing
    \/ SetVerticalCenter
    \/ SetOnDragStart
    \/ SetOnDragEnd
    \/ SetLetterClassName
    \/ SetTextAndDirection
    \/ FlushPassive
    \/ Resize
    \/ Unmount
    \/ \E i \in 1..Len(visEls) : Press(i)
    \/ Release

Spec == Init /\ [][Next]_vars

----------------------------------------------------------------------------
(* Properties *)

Mounted == phase = "mounted"

\* sum of a sequence of widths, by index
RECURSIVE SumTo(_, _)
SumTo(ws, n) == IF n = 0 THEN 0 ELSE ws[n] + SumTo(ws, n - 1)

\* total width of a run: glyph widths plus one spacing per adjacent pair
RunWidth(ws, sp) == SumTo(ws, Len(ws)) + sp * (Len(ws) - 1)

\* the gap between glyph i and glyph i + 1 of a run, in half pixels
Gap(run, ws, i) == run[i + 1].left - run[i].left - 2 * ws[i]

\* C1: every binding created by an earlier run of the binding pass is
\* released before the new ones are attached, so every live binding was
\* made by the latest run, a visible glyph element has at most one live
\* binding, and one press invokes onDragStart at most once (one release,
\* onDragEnd at most once).
C1_PriorBindingsReleased ==
    Mounted =>
        /\ \A b \in bindings : b.pass = passNo
        /\ \A i \in 1..Len(visEls) :
               Cardinality({b \in bindings : b.el = visEls[i]}) <= 1
        /\ lastOp \in {"Press", "Release"} => Cardinality(calls) <= 1

\* C2: with a non-empty text, once the layout pass has completed the run
\* holds one position per character, in order.
C2_OnePositionPerChar ==
    (Mounted /\ props.text # <<>>) =>
        /\ Len(letters) = Len(props.text)
        /\ \A i \in 1..Len(letters) : letters[i].char = props.text[i]

\* C2 witness: a run recomputed after the text shrank (letterRefs still has
\* the slot of the removed glyph).
C2_Witness ==
    /\ Mounted
    /\ lastOp = "SetText"
    /\ props.text # <<>>
    /\ Len(letterRefs) > Len(props.text)
    /\ RunChars(letters) = props.text

\* C3: for every adjacent pair of glyphs of the run, left[i+1] - left[i]
\* is spacing + width[i], width[i] being the width measured for glyph i.
C3_AdjacentAdvance ==
    Mounted =>
        \A i \in 1..(Len(letters) - 1) :
            letters[i + 1].left - letters[i].left
                = 2 * (props.spacing + layoutInputs.widths[i])

\* C3 witness: a glyph of measured width 0 that is not the last one; the
\* next glyph is exactly one spacing further.
C3_Witness ==
    /\ Mounted
    /\ Len(letters) = 2
    /\ layoutInputs.widths[1] = 0
    /\ letters[2].left - letters[1].left = 2 * props.spacing

\* C4: left[0] is (containerWidth - totalRunWidth) / 2 for the container
\* width the pass read, unclamped (left is in half pixels).
C4_Centred ==
    letters # <<>> =>
        letters[1].left = layoutInputs.w - RunWidth(layoutInputs.widths, props.spacing)

\* C4 witness: widths [10, 20], spacing 5, container width 100 give
\* left = [32.5, 47.5].
C4_Witness ==
    /\ Mounted
    /\ layoutInputs.widths = <<10, 20>>
    /\ props.spacing = 5
    /\ layoutInputs.w = 100
    /\ letters[1].left = 65
    /\ letters[2].left = 95

\* C5: when text is the empty string the run is empty and the mount or
\* update that made it so creates no drag binding.
C5_EmptyTextNoBindings ==
    (Mounted /\ props.text = <<>>) => (letters = <<>> /\ created = 0)

\* the (function, char, index) triples of a set of calls
Invocations(cs) == {<<c.fn, c.char, c.idx>> : c \in cs}

\* C6: a press on the glyph at index i invokes onDragStart, when supplied,
\* with (c, i), c the character at i of the current run, and nothing else;
\* the release of that drag invokes onDragEnd, when supplied, with the
\* same (c, i), and nothing else.
C6_CallbackArguments ==
    [][ /\ (drag = NoDrag /\ drag' # NoDrag) =>
               Invocations(calls') =
                   IF props'.onDragStart = None THEN {}
                   ELSE {<<props'.onDragStart, letters'[drag'.idx + 1].char, drag'.idx>>}
        /\ (drag # NoDrag /\ drag' = NoDrag) =>
               Invocations(calls') =
                   IF props'.onDragEnd = None THEN {}
                   ELSE {<<props'.onDragEnd, drag.char, drag.idx>>}
      ]_vars

\* C7: changing spacing alone, the container being the size the run was
\* laid out for, keeps the characters and every top, and makes every
\* adjacent gap the new spacing.
C7_SpacingOnly ==
    [][ ( /\ Mounted /\ phase' = "mounted"
          /\ props'.spacing # props.spacing
          /\ props' = [props EXCEPT !.spacing = props'.spacing]
          /\ container' = container
          /\ letters # <<>> => (layoutInputs.w = container.w /\ layoutInputs.h = container.h) )
        => /\ RunChars(letters') = RunChars(letters)
           /\ \A i \in 1..Len(letters) : letters'[i].top = letters[i].top
           /\ \A i \in 1..(Len(letters') - 1) :
                  Gap(letters', layoutInputs'.widths, i) = 2 * props'.spacing
      ]_vars

\* C7 witness: a two-glyph run just after a change of spacing alone.
C7_Witness ==
    /\ Mounted
    /\ lastOp = "SetSpacing"
    /\ Len(letters) = 2
    /\ Gap(letters, layoutInputs.widths, 1) = 2 * props.spacing
    /\ props.spacing # DefaultSpacing

\* C8: the binding pass never binds on a stale run: the letters a binding
\* closes over are the run of the text of the render that created it.
C8_NeverBindsStaleRun ==
    \A b \in bindings : b.run = b.forText

\* C9: after the unmount the drag collaborator holds no live binding
\* created by the component.
C9_TeardownReleasesBindings ==
    phase = "unmounted" => bindings = {}

\* C10: a step of the mounted component that leaves text, spacing and
\* verticalCenter alone (another prop changes, or the container is
\* resized) leaves every glyph's char, top and left unchanged.
C10_RecomputedOnlyOnLayoutDeps ==
    [][ ( /\ Mounted /\ phase' = "mounted"
          /\ props'.text = props.text
          /\ props'.spacing = props.spacing
          /\ props'.verticalCenter = props.verticalCenter )
        => letters' = letters
      ]_vars

\* C10 witness: after a resize and then a change of direction alone, the
\* run still has the positions computed for the old container width.
C10_Witness ==
    /\ Mounted
    /\ lastOp = "SetDirection"
    /\ letters # <<>>
    /\ layoutInputs.w # container.w
    /\ letters[1].left = layoutInputs.w - RunWidth(layoutInputs.widths, props.spacing)

====
